---------------------------- MODULE Spec2Model ----------------------------
(***************************************************************************)
(* A model of knox-core's matching-and-scanning engine:                    *)
(*   rust/knox-core/src/matcher.rs  PatternMatcher (registry, regex cache) *)
(*   rust/knox-core/src/scanner.rs  FastScanner, scan_file, scan_directory *)
(*                                                                         *)
(* Text is a sequence of one-character strings.  The regex crate is        *)
(* modelled on the sub-language the model's pattern texts use: a literal   *)
(* symbol matches itself, "." matches any one symbol other than a line     *)
(* feed, and a text holding "(" (a group that is never closed) does not    *)
(* compile.  Regex::find returns the leftmost occurrence.                  *)
(***************************************************************************)
EXTENDS Integers, Sequences, FiniteSets, TLC

VARIABLES
    text,          \* the text under scan (the argument of the match calls)
    patterns,      \* PatternMatcher.patterns of the matcher under test
    regex_cache,   \* PatternMatcher.regex_cache of the matcher under test
    mcall,         \* the last call made on the matcher and what it returned
    call,          \* the scan call under test: its function and arguments
    scanner,       \* the FastScanner instance the caller holds
    added,         \* the arguments of the add_extension calls on it, in order
    ret,           \* what the last scan call returned, and the steps it took
    prev,          \* what the file scan before the last one returned
    dpc,           \* scan_directory: "idle", or the branch it is running
    files,         \* scan_directory: the candidate list
    slots,         \* scan_directory: per candidate, the task's Option<ScanResult>
    completed,     \* scan_directory: the candidates' indices, as their scans ended
    dscanner       \* scan_directory: the scanner the sequential branch reuses

mvars == <<text, patterns, regex_cache, mcall>>
svars ==
    <<call, scanner, added, ret, prev, dpc, files, slots, completed, dscanner>>
vars == <<mvars, svars>>

-----------------------------------------------------------------------------
(* Bounds of the model *)

\* longest text handed to match_content and match_line
MaxContentLen == 3
\* most add_pattern calls on one matcher
MaxAdd == 2
\* most entries add_extension adds to the allow-list of the scanning instance
MaxAddExt == 1
\* most add_extension calls on the instance whose configuration is under test
MaxExtCalls == 3

-----------------------------------------------------------------------------
(* Text *)

NL == "\n"
CR == "\r"

\* the symbols of scanned text: "m" stands for a fragment the weak_crypto_md5
\* pattern matches, "x" for any other text
LineAlphabet == {"m", "x"}
ContentAlphabet == LineAlphabet \cup {NL}

TextsUpTo(alphabet, n) == UNION {[1..k -> alphabet] : k \in 0..n}

Min(S) == CHOOSE x \in S : \A y \in S : x <= y
Max(S) == CHOOSE x \in S : \A y \in S : x >= y

-----------------------------------------------------------------------------
(* regex crate: Regex::new and Regex::find on the modelled sub-language *)

\* Regex::new(pattern): Err for an unclosed group, else the compiled program
RegexNew(pattern) ==
    IF \E i \in 1..Len(pattern) : pattern[i] = "("
    THEN [ok |-> FALSE, regex |-> <<>>]
    ELSE [ok |-> TRUE,
          regex |-> [i \in 1..Len(pattern) |->
                        IF pattern[i] = "."
                        THEN [any |-> TRUE, ch |-> ""]
                        ELSE [any |-> FALSE, ch |-> pattern[i]]]]

\* the compiled program matches the line at 1-based position s
RegexMatchesAt(regex, line, s) ==
    /\ s + Len(regex) - 1 <= Len(line)
    /\ \A i \in 1..Len(regex) :
          IF regex[i].any THEN line[s + i - 1] # NL
                          ELSE line[s + i - 1] = regex[i].ch

RegexStarts(regex, line) ==
    {s \in 1..(Len(line) + 1) : RegexMatchesAt(regex, line, s)}

\* the mutant: the rightmost occurrence instead of the leftmost
RegexFindLast(regex, line) ==
    LET S == RegexStarts(regex, line)
    IN  IF S = {} THEN [some |-> FALSE, start |-> 0, text |-> <<>>]
        ELSE [some |-> TRUE, start |-> Max(S) - 1,
              text |-> SubSeq(line, Max(S), Max(S) + Len(regex) - 1)]

\* regex.find(line): None, or the leftmost match with its 0-based start offset
\* (capture.start()) and its text (capture.as_str())
RegexFind(regex, line) ==
    LET S == RegexStarts(regex, line)
    IN  IF S = {} THEN [some |-> FALSE, start |-> 0, text |-> <<>>]
        ELSE [some |-> TRUE, start |-> Min(S) - 1,
              text |-> SubSeq(line, Min(S), Min(S) + Len(regex) - 1)]

-----------------------------------------------------------------------------
(* matcher.rs: SecurityPattern, Match, PatternMatcher *)

SecurityPattern(name, pattern, severity, category, description) ==
    [name |-> name, pattern |-> pattern, severity |-> severity,
     category |-> category, description |-> description]

\* default_patterns(): the ten patterns, in order.  Each regex text is held as
\* one symbol standing for the fragments the real expression matches; only
\* "m" (weak_crypto_md5) is a symbol of LineAlphabet.
default_patterns ==
    << SecurityPattern("hardcoded_api_key", <<"k">>, "critical", "secrets",
                       "Hardcoded API key detected"),
       SecurityPattern("hardcoded_password", <<"p">>, "critical", "secrets",
                       "Hardcoded password detected"),
       SecurityPattern("sql_injection", <<"q">>, "high", "injection",
                       "Potential SQL injection vulnerability"),
       SecurityPattern("command_injection", <<"c">>, "high", "injection",
                       "Potential command injection risk"),
       SecurityPattern("weak_crypto_md5", <<"m">>, "medium", "crypto",
                       "Weak cryptographic algorithm MD5"),
       SecurityPattern("weak_crypto_sha1", <<"s">>, "medium", "crypto",
                       "Weak cryptographic algorithm SHA1"),
       SecurityPattern("insecure_deserialization", <<"d">>, "high",
                       "deserialization", "Insecure deserialization detected"),
       SecurityPattern("xss_vulnerability", <<"h">>, "high", "xss",
                       "Potential XSS vulnerability"),
       SecurityPattern("debug_mode", <<"g">>, "medium", "config",
                       "Debug mode enabled"),
       SecurityPattern("ssl_verification_disabled", <<"v">>, "high", "crypto",
                       "SSL certificate verification disabled") >>

\* the patterns a caller hands to add_pattern
CustomPatterns ==
    { SecurityPattern("custom_wild", <<"x", ".">>, "low", "custom", "x and one more"),
      SecurityPattern("custom_bad", <<"(">>, "high", "custom", "does not compile"),
      SecurityPattern("custom_empty", <<>>, "low", "custom", "matches every line") }

\* the line numbers a caller hands to match_line
LineNumbers == {1, 2}

Match(line_number, column, pattern_name, severity, matched_text, category) ==
    [line_number |-> line_number, column |-> column,
     pattern_name |-> pattern_name, severity |-> severity,
     matched_text |-> matched_text, category |-> category]

\* PatternMatcher::new(): the registry and the (empty) cache
PatternMatcherNew == [patterns |-> default_patterns, regex_cache |-> <<>>]

\* regex_cache.insert(key, regex)
CacheInsert(cache, key, regex) ==
    [k \in (DOMAIN cache) \cup {key} |-> IF k = key THEN regex ELSE cache[k]]

\* regex_cache.get(key)
CacheGet(cache, key) ==
    IF key \in DOMAIN cache THEN [some |-> TRUE, regex |-> cache[key]]
                            ELSE [some |-> FALSE, regex |-> <<>>]

\* the mutant: a cached entry is not handed out (only a compile is)
get_or_compile_regex_miss(cache, pattern) ==
    IF pattern \notin DOMAIN cache
    THEN LET r == RegexNew(pattern)
         IN  IF r.ok
             THEN LET c2 == CacheInsert(cache, pattern, r.regex)
                  IN  [cache |-> c2, regex |-> CacheGet(c2, pattern)]
             ELSE [cache |-> cache, regex |-> [some |-> FALSE, regex |-> <<>>]]
    ELSE [cache |-> cache, regex |-> [some |-> FALSE, regex |-> <<>>]]

\* the mutant: a failed compile is cached too, as a regex that matches nothing
get_or_compile_regex_keep_failed(cache, pattern) ==
    IF pattern \notin DOMAIN cache
    THEN [cache |-> CacheInsert(cache, pattern, <<[any |-> FALSE, ch |-> ""]>>),
          regex |-> IF RegexNew(pattern).ok
                    THEN [some |-> TRUE, regex |-> RegexNew(pattern).regex]
                    ELSE [some |-> FALSE, regex |-> <<>>]]
    ELSE [cache |-> cache, regex |-> CacheGet(cache, pattern)]

\* get_or_compile_regex(pattern): the cache afterwards and the Option<&Regex>
get_or_compile_regex(cache, pattern) ==
    IF pattern \notin DOMAIN cache
    THEN LET r == RegexNew(pattern)
         IN  IF r.ok
             THEN LET c2 == CacheInsert(cache, pattern, r.regex)
                  IN  [cache |-> c2, regex |-> CacheGet(c2, pattern)]
             ELSE [cache |-> cache, regex |-> [some |-> FALSE, regex |-> <<>>]]
    ELSE [cache |-> cache, regex |-> CacheGet(cache, pattern)]

\* the mutant: a pattern that does not compile ends the loop
RECURSIVE match_line_loop_abort(_, _, _, _, _, _)
match_line_loop_abort(pats, cache, line, line_number, i, matches) ==
    IF i > Len(pats) THEN [cache |-> cache, matches |-> matches]
    ELSE LET pattern == pats[i]
             g == get_or_compile_regex(cache, pattern.pattern)
             capture == RegexFind(g.regex.regex, line)
         IN  IF ~g.regex.some THEN [cache |-> g.cache, matches |-> matches]
             ELSE IF capture.some
             THEN match_line_loop_abort(pats, g.cache, line, line_number, i + 1,
                      Append(matches,
                             Match(line_number, capture.start, pattern.name,
                                   pattern.severity, capture.text,
                                   pattern.category)))
             ELSE match_line_loop_abort(pats, g.cache, line, line_number, i + 1,
                                        matches)

\* the body of match_line's loop for the patterns from index i on
RECURSIVE match_line_loop(_, _, _, _, _, _)
match_line_loop(pats, cache, line, line_number, i, matches) ==
    IF i > Len(pats) THEN [cache |-> cache, matches |-> matches]
    ELSE LET pattern == pats[i]
             g == get_or_compile_regex(cache, pattern.pattern)
             capture == RegexFind(g.regex.regex, line)
         IN  IF g.regex.some /\ capture.some
             THEN match_line_loop(pats, g.cache, line, line_number, i + 1,
                      Append(matches,
                             Match(line_number, capture.start, pattern.name,
                                   pattern.severity, capture.text,
                                   pattern.category)))
             ELSE match_line_loop(pats, g.cache, line, line_number, i + 1,
                                  matches)

\* match_line(line, line_number): the cache afterwards and the matches
match_line(pats, cache, line, line_number) ==
    match_line_loop(pats, cache, line, line_number, 1, <<>>)

\* the mutant: split('\n'), which makes a last empty line of a final line feed
RECURSIVE StrSplit(_)
StrSplit(content) ==
    LET F == {i \in 1..Len(content) : content[i] = NL}
    IN  IF F = {} THEN <<content>>
        ELSE <<SubSeq(content, 1, Min(F) - 1)>>
                 \o StrSplit(SubSeq(content, Min(F) + 1, Len(content)))

\* str::lines(): split after each line feed, the line feed and a carriage
\* return before it dropped; no line after a final line feed
RECURSIVE StrLines(_)
StrLines(content) ==
    IF content = <<>> THEN <<>>
    ELSE LET F == {i \in 1..Len(content) : content[i] = NL}
         IN  IF F = {} THEN <<content>>
             ELSE LET n == Min(F)
                      raw == SubSeq(content, 1, n - 1)
                      line == IF raw # <<>> /\ raw[Len(raw)] = CR
                              THEN SubSeq(raw, 1, Len(raw) - 1) ELSE raw
                  IN  <<line>> \o StrLines(SubSeq(content, n + 1, Len(content)))

\* the body of match_content's loop for the lines from index line_num on
\* (line_num is enumerate()'s 0-based index)
RECURSIVE match_content_loop(_, _, _, _, _)
match_content_loop(pats, cache, lines, line_num, all_matches) ==
    IF line_num >= Len(lines) THEN [cache |-> cache, matches |-> all_matches]
    ELSE LET r == match_line(pats, cache, lines[line_num + 1], line_num + 1)
         IN  match_content_loop(pats, r.cache, lines, line_num + 1,
                                all_matches \o r.matches)

\* match_content(content): the cache afterwards and the matches
match_content(pats, cache, content) ==
    match_content_loop(pats, cache, StrLines(content), 0, <<>>)

-----------------------------------------------------------------------------
(* The filesystem snapshot the scanner runs on.  A path is a sequence of    *)
(* components and a component a sequence of symbols, so that the extension  *)
(* is computed from the name as Path::extension computes it.                *)

Some(v) == [some |-> TRUE, v |-> v]
None == [some |-> FALSE, v |-> 0]

\* a symbol of a file name that is not valid UTF-8, and what to_string_lossy
\* makes of it (U+FFFD)
BadByte == "<ff>"
Replacement == "<fffd>"

Nm(stem, ext) == <<stem, ".", ext>>

RegularFile(size, content) ==
    [kind |-> "file", size |-> size, content |-> content, mmap_ok |-> TRUE,
     utf8_ok |-> TRUE, children |-> <<>>, target |-> <<>>]
\* a file mmap cannot map (the filesystem does not support it)
UnmappableFile(content) ==
    [RegularFile(Len(content), content) EXCEPT !.mmap_ok = FALSE]
\* a file whose bytes are not UTF-8
BinaryFile(size) ==
    [RegularFile(size, <<>>) EXCEPT !.utf8_ok = FALSE]
\* a directory: File::open succeeds, mmap and read fail
Directory(children) ==
    [kind |-> "dir", size |-> 4096, content |-> <<>>, mmap_ok |-> FALSE,
     utf8_ok |-> FALSE, children |-> children, target |-> <<>>]
Symlink(target) ==
    [kind |-> "symlink", size |-> 0, content |-> <<>>, mmap_ok |-> FALSE,
     utf8_ok |-> FALSE, children |-> <<>>, target |-> target]
Absent ==
    [kind |-> "absent", size |-> 0, content |-> <<>>, mmap_ok |-> FALSE,
     utf8_ok |-> FALSE, children |-> <<>>, target |-> <<>>]

OneMB == 1024 * 1024
DefaultMaxMB == 10

\* the snapshot: <<path, entry>> pairs; a directory lists its children in the
\* order read_dir returns them
Filesystem ==
    { <<<< <<"ok">> >>,
        Directory(<< Nm("b", "js"), <<"sub">>, Nm("a", "py"), Nm("n", "txt"),
                     <<"Makefile">> >>)>>,
      <<<< <<"ok">>, Nm("b", "js") >>, RegularFile(0, <<>>)>>,
      <<<< <<"ok">>, <<"sub">> >>, Directory(<< Nm("c", "rs") >>)>>,
      <<<< <<"ok">>, <<"sub">>, Nm("c", "rs") >>, RegularFile(2, <<"x", "m">>)>>,
      <<<< <<"ok">>, Nm("a", "py") >>, RegularFile(5, <<"m", NL, "x", "m", NL>>)>>,
      <<<< <<"ok">>, Nm("n", "txt") >>, RegularFile(1, <<"m">>)>>,
      <<<< <<"ok">>, <<"Makefile">> >>, RegularFile(2, <<"m", "m">>)>>,

      <<<< <<"bad">> >>,
        Directory(<< Nm("u", "py"), Nm("big", "go"), Nm("a", "py") >>)>>,
      <<<< <<"bad">>, Nm("u", "py") >>, BinaryFile(3)>>,
      <<<< <<"bad">>, Nm("big", "go") >>,
        RegularFile(DefaultMaxMB * OneMB + 1, <<"m">>)>>,
      <<<< <<"bad">>, Nm("a", "py") >>, RegularFile(1, <<"m">>)>>,

      <<<< <<"odd">> >>,
        Directory(<< <<".", "py">>, Nm("d", "rs"), Nm("l", "py"), Nm("x", "PY"),
                     Nm(BadByte, "py") >>)>>,
      <<<< <<"odd">>, <<".", "py">> >>, RegularFile(1, <<"m">>)>>,
      <<<< <<"odd">>, Nm("d", "rs") >>, Directory(<< Nm("m", "php") >>)>>,
      <<<< <<"odd">>, Nm("d", "rs"), Nm("m", "php") >>,
        UnmappableFile(<<"m", "m">>)>>,
      <<<< <<"odd">>, Nm("l", "py") >>, Symlink(<< <<"ok">>, Nm("a", "py") >>)>>,
      <<<< <<"odd">>, Nm("x", "PY") >>, RegularFile(1, <<"m">>)>>,
      <<<< <<"odd">>, Nm(BadByte, "py") >>, RegularFile(1, <<"m">>)>>,

      <<<< <<"sz">> >>,
        Directory(<< Nm("eq1", "py"), Nm("gt1", "py"), Nm("eq10", "py") >>)>>,
      <<<< <<"sz">>, Nm("eq1", "py") >>, RegularFile(OneMB, <<"m">>)>>,
      <<<< <<"sz">>, Nm("gt1", "py") >>, RegularFile(OneMB + 1, <<"x", NL, "m">>)>>,
      <<<< <<"sz">>, Nm("eq10", "py") >>,
        RegularFile(DefaultMaxMB * OneMB, <<"x", "m">>)>> }

\* lstat: the entry at a path, a symbolic link not followed
EntryOf(E) == IF E = {} THEN Absent ELSE (CHOOSE e \in E : TRUE)[2]
Lstat(path) == EntryOf({e \in Filesystem : e[1] = path})

\* stat: the entry at a path, a symbolic link followed
Follow(e) == IF e.kind = "symlink" THEN Lstat(e.target) ELSE e
Stat(path) == Follow(Lstat(path))

\* the mutant: the existence check passes for every path
PathExistsAlways(path) == TRUE

\* Path::exists()
PathExists(path) == Stat(path).kind # "absent"

\* std::fs::metadata(path): Ok with len(), or Err
MetadataOf(e) ==
    IF e.kind = "absent" THEN [ok |-> FALSE, len |-> 0]
    ELSE [ok |-> TRUE, len |-> e.size]
FsMetadata(path) == MetadataOf(Stat(path))

\* Path::extension(): the part of the last component after its last dot; None
\* without a dot, or when the only dot is the first symbol
PathExtension(path) ==
    LET name == path[Len(path)]
        D == {i \in 1..Len(name) : name[i] = "."}
    IN  IF D = {} \/ Max(D) = 1 THEN None
        ELSE Some(SubSeq(name, Max(D) + 1, Len(name)))

\* to_string_lossy(): symbols that are not UTF-8 become U+FFFD
LossySymbols(name) ==
    [i \in 1..Len(name) |-> IF name[i] = BadByte THEN Replacement ELSE name[i]]
ToStringLossy(path) == [i \in 1..Len(path) |-> LossySymbols(path[i])]

\* format!(".{}", ext.to_string_lossy())
ExtStr(ext) == <<".">> \o LossySymbols(ext)

-----------------------------------------------------------------------------
(* scanner.rs: ScanResult, FastScanner *)

ScanResult(file_path, matches, scan_time_ms, file_size) ==
    [file_path |-> file_path, matches |-> matches,
     scan_time_ms |-> scan_time_ms, file_size |-> file_size]

NoResult == ScanResult(<<>>, <<>>, 0, 0)

Ok(v) == [ok |-> TRUE, err |-> "", v |-> v]
Err(e) == [ok |-> FALSE, err |-> e, v |-> NoResult]

DefaultExtensions ==
    << <<".", "py">>, <<".", "js">>, <<".", "ts">>, <<".", "jsx">>,
       <<".", "tsx">>, <<".", "rs">>, <<".", "go">>, <<".", "java">>,
       <<".", "php">>, <<".", "rb">>, <<".", "c">>, <<".", "cpp">>,
       <<".", "cs">> >>

\* Vec::contains
Contains(vec, x) == \E i \in 1..Len(vec) : vec[i] = x

\* FastScanner::new(max_file_size_mb)
FastScannerNew(max_file_size_mb) ==
    [matcher |-> PatternMatcherNew,
     extensions |-> DefaultExtensions,
     max_file_size |->
         (IF max_file_size_mb.some THEN max_file_size_mb.v ELSE DefaultMaxMB)
             * 1024 * 1024]

\* self.matcher.match_content(content), the scanner's matcher updated
WithCache(self, r) ==
    [self |-> [self EXCEPT !.matcher.regex_cache = r.cache],
     matches |-> r.matches]
ScannerMatch(self, content) ==
    WithCache(self, match_content(self.matcher.patterns,
                                  self.matcher.regex_cache, content))

\* what scan_file_mmap and scan_file_normal give: Ok(matches) or Err, with
\* the scanner afterwards and the steps taken
Matched(r, trace) ==
    [ok |-> TRUE, self |-> r.self, matches |-> r.matches, trace |-> trace]
Failed(self, trace) ==
    [ok |-> FALSE, self |-> self, matches |-> <<>>, trace |-> trace]

\* scan_file_mmap(path): File::open, Mmap::map, from_utf8, match_content
MmapEntry(self, f) ==
    IF f.kind = "absent" \/ ~f.mmap_ok \/ ~f.utf8_ok
    THEN Failed(self, <<"mmap">>)
    ELSE Matched(ScannerMatch(self, f.content), <<"mmap", "match">>)
scan_file_mmap(self, path) == MmapEntry(self, Stat(path))

\* scan_file_normal(path): read_to_string, match_content
ReadEntry(self, f) ==
    IF f.kind # "file" \/ ~f.utf8_ok
    THEN Failed(self, <<"read">>)
    ELSE Matched(ScannerMatch(self, f.content), <<"read", "match">>)
scan_file_normal(self, path) == ReadEntry(self, Stat(path))

\* the mutant: a file of exactly the limit is skipped too
OversizedOrEqual(file_size, max_file_size) == file_size >= max_file_size

\* the size policy of scan_file_sync
Oversized(file_size, max_file_size) == file_size > max_file_size

\* scan_file_sync(path) up to the last statement: the scanner afterwards, the
\* steps taken, and either the value returned early (returned) or the matches
\* and the size the last statement builds its ScanResult from
ScanSteps(self, returned, result, matches, file_size, trace) ==
    [self |-> self, returned |-> returned, result |-> result,
     matches |-> matches, file_size |-> file_size, trace |-> trace]

\* Err(_) => self.scan_file_normal(path_obj)?
AfterNormal(m, n, file_size) ==
    IF n.ok
    THEN ScanSteps(n.self, FALSE, Err(""), n.matches, file_size,
                   <<"exists", "metadata">> \o m.trace \o n.trace)
    ELSE ScanSteps(n.self, TRUE, Err("IOError"), <<>>, 0,
                   <<"exists", "metadata">> \o m.trace \o n.trace)

\* the mutant: a failed scan_file_mmap is returned as the error
AfterMmapNoFallback(m, path, file_size) ==
    IF m.ok
    THEN ScanSteps(m.self, FALSE, Err(""), m.matches, file_size,
                   <<"exists", "metadata">> \o m.trace)
    ELSE ScanSteps(m.self, TRUE, Err("IOError"), <<>>, 0,
                   <<"exists", "metadata">> \o m.trace)

\* match self.scan_file_mmap(path_obj)
AfterMmap(m, path, file_size) ==
    IF m.ok
    THEN ScanSteps(m.self, FALSE, Err(""), m.matches, file_size,
                   <<"exists", "metadata">> \o m.trace)
    ELSE AfterNormal(m, scan_file_normal(m.self, path), file_size)

\* the statements after std::fs::metadata(path_obj)
AfterMetadata(self, path, metadata) ==
    IF ~metadata.ok
    THEN ScanSteps(self, TRUE, Err("IOError"), <<>>, 0,
                   <<"exists", "metadata">>)
    ELSE IF Oversized(metadata.len, self.max_file_size)
    THEN ScanSteps(self, TRUE, Ok(ScanResult(path, <<>>, 0, metadata.len)),
                   <<>>, metadata.len, <<"exists", "metadata">>)
    ELSE IF metadata.len > 0
    THEN AfterMmap(scan_file_mmap(self, path), path, metadata.len)
    ELSE ScanSteps(self, FALSE, Err(""), <<>>, metadata.len,
                   <<"exists", "metadata">>)

scan_file_sync_body(self, path) ==
    IF ~PathExists(path)
    THEN ScanSteps(self, TRUE, Err("NotFound"), <<>>, 0, <<"exists">>)
    ELSE AfterMetadata(self, path, FsMetadata(path))

\* the last statement of scan_file_sync: Ok(ScanResult { .. }) with
\* scan_time_ms = start.elapsed().as_millis()
scan_file_sync_return(b, path, elapsed) ==
    [self |-> b.self,
     result |-> IF b.returned THEN b.result
                ELSE Ok(ScanResult(path, b.matches, elapsed, b.file_size)),
     trace |-> b.trace]

\* scan_file_sync(path): the scanner afterwards, the PyResult<ScanResult>, and
\* the steps taken
scan_file_sync(self, path, elapsed) ==
    scan_file_sync_return(scan_file_sync_body(self, path), path, elapsed)

\* the mutant: no check for an entry already present
add_extension_push(extensions, ext) == Append(extensions, ext)

\* add_extension(ext): the allow-list afterwards
add_extension(extensions, ext) ==
    IF ~Contains(extensions, ext) THEN Append(extensions, ext) ELSE extensions

\* should_scan(path)
should_scan(self, path) ==
    LET ext == PathExtension(path)
    IN  IF ext.some THEN Contains(self.extensions, ExtStr(ext.v)) ELSE FALSE

-----------------------------------------------------------------------------
(* scanner.rs: scan_directory *)

\* WalkDir::new(root).max_depth(max_depth): the entries in the order the
\* iterator yields them (the root first, then depth first), links not followed
RECURSIVE WalkDir(_, _, _)
RECURSIVE WalkChildren(_, _, _, _, _)
WalkDir(path, depth, max_depth) ==
    LET e == Lstat(path)
    IN  <<[path |-> path, kind |-> e.kind]>>
            \o (IF e.kind = "dir" /\ (~max_depth.some \/ depth < max_depth.v)
                THEN WalkChildren(path, e.children, 1, depth + 1, max_depth)
                ELSE <<>>)
WalkChildren(dir, children, i, depth, max_depth) ==
    IF i > Len(children) THEN <<>>
    ELSE WalkDir(Append(dir, children[i]), depth, max_depth)
             \o WalkChildren(dir, children, i + 1, depth, max_depth)

\* the mutant: the extension filter left out
DirCandidateAnyExt(e, extensions) == e.kind = "file"

\* the filter on the walk's entries: regular files whose extension is in the
\* allow-list of scan_directory's own FastScanner::new(None)
DirCandidate(e, extensions) ==
    /\ e.kind = "file"
    /\ LET ext == PathExtension(e.path)
       IN  IF ext.some THEN Contains(extensions, ExtStr(ext.v)) ELSE FALSE

RECURSIVE FilterPaths(_, _)
FilterPaths(entries, extensions) ==
    IF entries = <<>> THEN <<>>
    ELSE (IF DirCandidate(entries[1], extensions) THEN <<entries[1].path>>
          ELSE <<>>) \o FilterPaths(Tail(entries), extensions)

\* the mutant: the filter reads the allow-list of the caller's instance
DirFilesOfCaller(path, max_depth) ==
    FilterPaths(WalkDir(path, 0, max_depth), scanner.extensions)

\* files: the candidate list of scan_directory(path, max_depth, _)
DirFiles(path, max_depth) ==
    LET own_scanner == FastScannerNew(None)
        extensions == own_scanner.extensions
    IN  FilterPaths(WalkDir(path, 0, max_depth), extensions)

\* filter_map(|file_path| scanner.scan_file_sync(..).ok()): the value kept
Kept(r) == IF r.result.ok THEN <<r.result.v>> ELSE <<>>

\* the sequential branch as one fold: iter().filter_map(..).collect() with the
\* one scanner, every scan_time_ms read as 0
RECURSIVE SequentialResults(_, _)
RECURSIVE SequentialRest(_, _)
SequentialResults(fs, one_scanner) ==
    IF fs = <<>> THEN <<>>
    ELSE SequentialRest(fs, scan_file_sync(one_scanner, ToStringLossy(fs[1]), 0))
SequentialRest(fs, r) == Kept(r) \o SequentialResults(Tail(fs), r.self)

\* the parallel branch as one map: par_iter().filter_map(..).collect() with a
\* scanner per task, every scan_time_ms read as 0
RECURSIVE ParallelResults(_)
ParallelResults(fs) ==
    IF fs = <<>> THEN <<>>
    ELSE Kept(scan_file_sync(FastScannerNew(None), ToStringLossy(fs[1]), 0))
             \o ParallelResults(Tail(fs))

-----------------------------------------------------------------------------
(* The scan calls: what a caller hands in, and what comes back *)

NoneBool == [some |-> FALSE, v |-> FALSE]

\* start.elapsed().as_millis(): the readings of the clock the model takes
ElapsedMs == {0, 7}

\* the paths handed to scan_file_sync and scan_file
FilePaths ==
    { << <<"ok">>, Nm("a", "py") >>, << <<"ok">>, Nm("b", "js") >>,
      << <<"ok">>, Nm("n", "txt") >>, << <<"ok">>, <<"Makefile">> >>,
      << <<"ok">>, <<"sub">> >>,
      << <<"bad">>, Nm("u", "py") >>, << <<"bad">>, Nm("big", "go") >>,
      << <<"odd">>, Nm("d", "rs"), Nm("m", "php") >>,
      << <<"odd">>, Nm("l", "py") >>, << <<"odd">>, Nm("x", "PY") >>,
      << <<"odd">>, Nm(Replacement, "py") >>,
      << <<"sz">>, Nm("eq1", "py") >>, << <<"sz">>, Nm("gt1", "py") >>,
      << <<"sz">>, Nm("eq10", "py") >>,
      << <<"nope">>, Nm("a", "py") >> }

\* the roots, depths and flags handed to scan_directory
DirRoots ==
    { << <<"ok">> >>, << <<"bad">> >>, << <<"odd">> >>, << <<"sz">> >>,
      << <<"nope">> >>, << <<"ok">>, Nm("a", "py") >> }
MaxDepths == {None, Some(0), Some(1)}
ParallelFlags == {NoneBool, Some(TRUE), Some(FALSE)}

\* the sizes handed to FastScanner::new, in megabytes
SizeArgs == {None, Some(1)}

\* the extensions handed to add_extension
ExtArgs == { <<".", "py">>, <<".", "txt">>, <<".", "PY">>, <<"txt">> }

\* the extensions handed to add_extension on the instance that scans
ScanExtArgs == { <<".", "py">>, <<".", "txt">> }

FileCalls ==
    {[fn |-> "file", path |-> p, max_depth |-> None, parallel |-> NoneBool] :
        p \in FilePaths}
DirCalls ==
    {[fn |-> "dir", path |-> p, max_depth |-> d, parallel |-> q] :
        p \in DirRoots, d \in MaxDepths, q \in ParallelFlags}
NoCall == [fn |-> "none", path |-> <<>>, max_depth |-> None,
           parallel |-> NoneBool]

\* a returned value: the PyResult's status, its ScanResult (a file scan) or
\* its Vec<ScanResult> (a directory scan), the steps taken, and the size
\* limit and cache state of the scanner that ran it
Ret(op, status, result, results, trace, max_file_size, cache_before) ==
    [op |-> op, status |-> status, result |-> result, results |-> results,
     trace |-> trace, max_file_size |-> max_file_size,
     cache_before |-> cache_before]

NoRet == Ret("none", "", NoResult, <<>>, <<>>, 0, FALSE)

Status(r) == IF r.ok THEN "Ok" ELSE r.err

\* Result::ok(): Some(v) or None, as a task's slot
Pending == [state |-> "pending", v |-> NoResult]
SlotOf(r) == IF r.ok THEN [state |-> "some", v |-> r.v]
                     ELSE [state |-> "none", v |-> NoResult]

\* the mutant: the first failed scan ends the collection
RECURSIVE CollectUntilNone(_)
CollectUntilNone(ss) ==
    IF ss = <<>> \/ ss[1].state # "some" THEN <<>>
    ELSE <<ss[1].v>> \o CollectUntilNone(Tail(ss))

\* the mutant: the Some values in the order in which the scans ended
RECURSIVE CollectCompleted(_, _)
CollectCompleted(ss, k) ==
    IF k > Len(completed) \/ k > Len(ss) THEN <<>>
    ELSE (IF ss[completed[k]].state = "some" THEN <<ss[completed[k]].v>>
          ELSE <<>>) \o CollectCompleted(ss, k + 1)
CollectAsCompleted(ss) == CollectCompleted(ss, 1)

\* collect(): the Some values, in the order of the candidate list
RECURSIVE Collect(_)
Collect(ss) ==
    IF ss = <<>> THEN <<>>
    ELSE (IF ss[1].state = "some" THEN <<ss[1].v>> ELSE <<>>)
             \o Collect(Tail(ss))

\* no scan call made, no directory scan running
ScannerIdle ==
    /\ call = NoCall
    /\ scanner = FastScannerNew(None)
    /\ added = <<>>
    /\ ret = NoRet
    /\ prev = NoRet
    /\ dpc = "idle"
    /\ files = <<>>
    /\ slots = <<>>
    /\ completed = <<>>
    /\ dscanner = FastScannerNew(None)

MatcherIdle ==
    /\ text = <<>>
    /\ patterns = PatternMatcherNew.patterns
    /\ regex_cache = PatternMatcherNew.regex_cache
    /\ mcall = [op |-> "new", line_number |-> 0, result |-> <<>>]

Init ==
    /\ call \in FileCalls \cup DirCalls
    /\ scanner = FastScannerNew(None)
    /\ added = <<>>
    /\ ret = NoRet
    /\ prev = NoRet
    /\ dpc = "idle"
    /\ files = <<>>
    /\ slots = <<>>
    /\ completed = <<>>
    /\ dscanner = FastScannerNew(None)
    /\ MatcherIdle

\* FastScanner::new(max_file_size_mb): the caller replaces its instance
NewScanner ==
    /\ dpc = "idle"
    /\ \E mb \in SizeArgs : scanner' = FastScannerNew(mb)
    /\ UNCHANGED <<call, added, ret, prev, files, slots, completed,
                 dpc, dscanner, mvars>>

\* add_extension(ext) on the caller's instance
AddExtension ==
    /\ dpc = "idle"
    /\ \E ext \in ScanExtArgs :
          /\ \/ Contains(scanner.extensions, ext)
             \/ Len(scanner.extensions) < Len(DefaultExtensions) + MaxAddExt
          /\ scanner' = [scanner EXCEPT
                            !.extensions = add_extension(scanner.extensions, ext)]
    /\ UNCHANGED <<call, added, ret, prev, files, slots, completed,
                 dpc, dscanner, mvars>>

\* scan_file_sync(path) on the caller's instance
ScanFileSync ==
    /\ dpc = "idle"
    /\ call.fn = "file"
    /\ \E b \in {scan_file_sync_body(scanner, call.path)} :
       \E elapsed \in ElapsedMs :
          \E r \in {scan_file_sync_return(b, call.path, elapsed)} :
              /\ scanner' = r.self
              /\ ret' = Ret("scan_file_sync", Status(r.result), r.result.v,
                            <<>>, r.trace, scanner.max_file_size,
                            scanner.matcher.regex_cache # <<>>)
              /\ prev' = ret
    /\ UNCHANGED <<call, added, files, slots, completed, dpc, dscanner, mvars>>

\* scan_file(path): a new default scanner for this one call
ScanFile ==
    /\ dpc = "idle"
    /\ call.fn = "file"
    /\ \E b \in {scan_file_sync_body(FastScannerNew(None), call.path)} :
       \E elapsed \in ElapsedMs :
          \E r \in {scan_file_sync_return(b, call.path, elapsed)} :
              /\ ret' = Ret("scan_file", Status(r.result), r.result.v, <<>>,
                            r.trace, FastScannerNew(None).max_file_size,
                            FALSE)
              /\ prev' = ret
    /\ UNCHANGED <<call, scanner, added, files, slots, completed,
                 dpc, dscanner, mvars>>

\* scan_directory(path, max_depth, parallel) up to the dispatch: the root
\* check, the walk, and the choice of the branch
ScanDirectoryCall ==
    /\ dpc = "idle"
    /\ call.fn = "dir"
    /\ IF ~PathExists(call.path)
       THEN /\ ret' = Ret("scan_directory", "NotFound", NoResult, <<>>,
                          <<"exists">>, 0, FALSE)
            /\ UNCHANGED <<dpc, files, slots, completed, dscanner>>
       ELSE \E fs \in {DirFiles(call.path, call.max_depth)} :
                /\ files' = fs
                /\ slots' = [i \in 1..Len(fs) |-> Pending]
                /\ completed' = <<>>
                /\ dpc' = IF (IF call.parallel.some THEN call.parallel.v
                                                   ELSE TRUE) /\ Len(fs) > 1
                          THEN "parallel" ELSE "sequential"
                /\ dscanner' = FastScannerNew(None)
                /\ ret' = Ret("scan_directory", "running", NoResult, <<>>,
                              <<"exists", "walk">>, 0, FALSE)
    /\ UNCHANGED <<call, scanner, added, prev, mvars>>

\* the parallel branch: one task of par_iter().filter_map(..), on any
\* candidate not yet scanned, with a scanner of its own
ParTask ==
    /\ dpc = "parallel"
    /\ \E i \in 1..Len(files) :
          /\ slots[i].state = "pending"
          /\ \E b \in {scan_file_sync_body(FastScannerNew(None),
                                            ToStringLossy(files[i]))} :
                \E elapsed \in ElapsedMs :
                    slots' = [slots EXCEPT ![i] =
                                 SlotOf(scan_file_sync_return(
                                     b, ToStringLossy(files[i]), elapsed).result)]
          /\ completed' = Append(completed, i)
    /\ UNCHANGED <<call, scanner, added, ret, prev, dpc, files, dscanner, mvars>>

\* the sequential branch: the next candidate of iter().filter_map(..), with
\* the one scanner the branch made
SeqTask ==
    /\ dpc = "sequential"
    /\ \E i \in 1..Len(files) :
          /\ slots[i].state = "pending"
          /\ \A j \in 1..(i - 1) : slots[j].state # "pending"
          /\ \E b \in {scan_file_sync_body(dscanner, ToStringLossy(files[i]))} :
                \E elapsed \in ElapsedMs :
                    /\ slots' = [slots EXCEPT ![i] =
                                    SlotOf(scan_file_sync_return(
                                        b, ToStringLossy(files[i]),
                                        elapsed).result)]
                    /\ dscanner' = b.self
          /\ completed' = Append(completed, i)
    /\ UNCHANGED <<call, scanner, added, ret, prev, dpc, files, mvars>>

\* collect() and Ok(results), once every candidate has been scanned
ScanDirectoryReturn ==
    /\ dpc \in {"parallel", "sequential"}
    /\ \A i \in 1..Len(files) : slots[i].state # "pending"
    /\ ret' = Ret("scan_directory", "Ok", NoResult, Collect(slots),
                  Append(ret.trace, dpc), 0, FALSE)
    /\ dpc' = "idle"
    /\ UNCHANGED <<call, scanner, added, prev, files, slots, completed,
                 dscanner, mvars>>

Next ==
    \/ NewScanner
    \/ AddExtension
    \/ ScanFileSync
    \/ ScanFile
    \/ ScanDirectoryCall
    \/ ParTask
    \/ SeqTask
    \/ ScanDirectoryReturn

Spec == Init /\ [][Next]_vars

-----------------------------------------------------------------------------
(* The configuration of one FastScanner: new and add_extension, with the    *)
(* arguments of the add_extension calls kept                                *)

ConfigInit == ScannerIdle /\ MatcherIdle

\* FastScanner::new(max_file_size_mb)
ConfigNew ==
    /\ \E mb \in SizeArgs : scanner' = FastScannerNew(mb)
    /\ added' = <<>>
    /\ UNCHANGED <<call, ret, prev, dpc, files, slots, completed,
                 dscanner, mvars>>

\* add_extension(ext)
ConfigAddExtension ==
    /\ Len(added) < MaxExtCalls
    /\ \E ext \in ExtArgs :
          /\ scanner' = [scanner EXCEPT
                            !.extensions = add_extension(scanner.extensions, ext)]
          /\ added' = Append(added, ext)
    /\ UNCHANGED <<call, ret, prev, dpc, files, slots, completed,
                 dscanner, mvars>>

ConfigNext == ConfigNew \/ ConfigAddExtension

SpecConfig == ConfigInit /\ [][ConfigNext]_vars

-----------------------------------------------------------------------------
(* The matcher under test: a PatternMatcher and the calls made on it *)

MCall(op, line_number, result) ==
    [op |-> op, line_number |-> line_number, result |-> result]

MInit ==
    /\ text \in TextsUpTo(ContentAlphabet, MaxContentLen)
    /\ patterns = PatternMatcherNew.patterns
    /\ regex_cache = PatternMatcherNew.regex_cache
    /\ mcall = MCall("new", 0, <<>>)
    /\ ScannerIdle

\* add_pattern(pattern)
AddPattern ==
    /\ Len(patterns) < Len(default_patterns) + MaxAdd
    /\ \E p \in CustomPatterns :
          /\ patterns' = Append(patterns, p)
          /\ mcall' = MCall("add_pattern", 0, <<>>)
    /\ UNCHANGED <<text, regex_cache, svars>>

\* match_line(text, line_number)
MatchLine ==
    \E n \in LineNumbers :
        LET r == match_line(patterns, regex_cache, text, n)
        IN  /\ regex_cache' = r.cache
            /\ mcall' = MCall("match_line", n, r.matches)
            /\ UNCHANGED <<text, patterns, svars>>

\* match_content(text)
MatchContent ==
    LET r == match_content(patterns, regex_cache, text)
    IN  /\ regex_cache' = r.cache
        /\ mcall' = MCall("match_content", 0, r.matches)
        /\ UNCHANGED <<text, patterns, svars>>

MNext == AddPattern \/ MatchLine \/ MatchContent

SpecMatcher == MInit /\ [][MNext]_vars

-----------------------------------------------------------------------------
(* What the claims say of text and patterns, stated without the matcher:    *)
(* lines by the positions of the line feeds, occurrences by the pattern     *)
(* text itself.                                                             *)

\* the positions of the line feeds of a content
FeedsOf(content) == {i \in 1..Len(content) : content[i] = NL}

\* the number of lines of a content: one per line feed, and one more for
\* text after the last line feed
NumLinesOf(content) ==
    Cardinality(FeedsOf(content))
        + (IF content # <<>> /\ content[Len(content)] # NL THEN 1 ELSE 0)

\* the l-th line of a content, between the (l-1)-th and the l-th line feed
LineOf(content, l) ==
    LET F == FeedsOf(content)
        before == {i \in F : Cardinality({j \in F : j < i}) = l - 2}
        after == {i \in F : Cardinality({j \in F : j < i}) = l - 1}
        first == IF l = 1 THEN 1 ELSE Min(before) + 1
        last == IF after = {} THEN Len(content) ELSE Min(after) - 1
    IN  SubSeq(content, first, last)

\* the pattern text is a regular expression
Compiles(ptext) == \A i \in 1..Len(ptext) : ptext[i] # "("

\* the pattern text matches the line from 1-based position s on
OccursAt(ptext, line, s) ==
    /\ s >= 1
    /\ s + Len(ptext) - 1 <= Len(line)
    /\ \A i \in 1..Len(ptext) :
          \/ ptext[i] = line[s + i - 1]
          \/ ptext[i] = "." /\ line[s + i - 1] # NL

Occurs(ptext, line) ==
    Compiles(ptext) /\ \E s \in 1..(Len(line) + 1) : OccursAt(ptext, line, s)

\* the Match the claims expect of registered pattern p on line number l
ExpectedMatch(p, line, l) ==
    LET s == CHOOSE s \in 1..(Len(line) + 1) :
                 /\ OccursAt(p.pattern, line, s)
                 /\ \A t \in 1..(s - 1) : ~OccursAt(p.pattern, line, t)
    IN  [line_number |-> l, column |-> s - 1, pattern_name |-> p.name,
         severity |-> p.severity,
         matched_text |-> SubSeq(line, s, s + Len(p.pattern) - 1),
         category |-> p.category]

\* how many entries of a sequence satisfy... (counts by index, so that equal
\* entries count apart)
CountIn(seq, m) == Cardinality({k \in 1..Len(seq) : seq[k] = m})

\* a pattern that occurs twice or more on some line of the text
SomePatternOccursTwice ==
    \E l \in 1..NumLinesOf(text), j \in 1..Len(patterns) :
        /\ Compiles(patterns[j].pattern)
        /\ Cardinality({s \in 1..(Len(LineOf(text, l)) + 1) :
               OccursAt(patterns[j].pattern, LineOf(text, l), s)}) >= 2

\* C1: match_content(C) holds exactly one Match for each (line, registered
\* pattern) pair whose pattern occurs on the line, and none for any other
\* pair; the Match carries the start offset and the text of the leftmost
\* occurrence.  (Pairs are counted by registry index: a pattern registered
\* twice is two pairs.)
C1_OneMatchPerLineAndPattern ==
    mcall.op = "match_content" =>
        LET n == NumLinesOf(text)
            pairs == {<<l, j>> \in (1..n) \X (1..Len(patterns)) :
                         Occurs(patterns[j].pattern, LineOf(text, l))}
            expected(pr) == ExpectedMatch(patterns[pr[2]], LineOf(text, pr[1]), pr[1])
        IN  /\ Len(mcall.result) = Cardinality(pairs)
            /\ \A pr \in pairs :
                  CountIn(mcall.result, expected(pr))
                      = Cardinality({q \in pairs : expected(q) = expected(pr)})
            /\ \A k \in 1..Len(mcall.result) :
                  \E pr \in pairs : mcall.result[k] = expected(pr)

\* C1's case: a match_content call on a text where a pattern occurs twice on
\* one line, and the call returned matches
C1_Witness ==
    /\ mcall.op = "match_content"
    /\ SomePatternOccursTwice
    /\ Len(mcall.result) >= 2

\* the names of the registered patterns that occur on a line, in registration
\* order
RECURSIVE NamesOccurring(_, _, _)
NamesOccurring(pats, line, j) ==
    IF j > Len(pats) THEN <<>>
    ELSE (IF Occurs(pats[j].pattern, line) THEN <<pats[j].name>> ELSE <<>>)
             \o NamesOccurring(pats, line, j + 1)

\* C8: match_content numbers lines from 1, makes no line of what follows a
\* final line feed, and returns its matches sorted by line number and, within
\* one line, by the registration order of the patterns; every line_number is
\* between 1 and the number of lines.
C8_LineNumbersAndOrder ==
    mcall.op = "match_content" =>
        LET r == mcall.result
            n == NumLinesOf(text)
        IN  /\ \A k \in 1..Len(r) : r[k].line_number \in 1..n
            /\ \A k \in 1..(Len(r) - 1) : r[k].line_number <= r[k + 1].line_number
            /\ \A l \in 1..n :
                  LET K == {k \in 1..Len(r) : r[k].line_number = l}
                      names == NamesOccurring(patterns, LineOf(text, l), 1)
                  IN  /\ Cardinality(K) = Len(names)
                      /\ \A k \in K : r[k].pattern_name = names[k - Min(K) + 1]

\* C8's case: a content that ends with a line feed, scanned with a pattern
\* that matches the empty line, with matches on two lines
C8_Witness ==
    /\ mcall.op = "match_content"
    /\ text # <<>> /\ text[Len(text)] = NL
    /\ \E j \in 1..Len(patterns) : patterns[j].pattern = <<>>
    /\ \E k \in 1..Len(mcall.result) : mcall.result[k].line_number = 2
    /\ \E k \in 1..(Len(mcall.result) - 1) :
          /\ mcall.result[k].line_number = mcall.result[k + 1].line_number
          /\ mcall.result[k].pattern_name # mcall.result[k + 1].pattern_name

\* the registry without the patterns whose text does not compile
RECURSIVE WithoutInvalid(_)
WithoutInvalid(pats) ==
    IF pats = <<>> THEN <<>>
    ELSE (IF Compiles(pats[1].pattern) THEN <<pats[1]>> ELSE <<>>)
             \o WithoutInvalid(Tail(pats))

\* C10: a registered pattern whose text does not compile produces no match in
\* any match_line or match_content call and leaves the matches of every other
\* pattern as they are: the result is that of a new matcher holding the same
\* registry without the invalid patterns.
C10_InvalidPatternIsSkipped ==
    /\ mcall.op = "match_content" =>
          /\ mcall.result = match_content(WithoutInvalid(patterns), <<>>, text).matches
          /\ \A k \in 1..Len(mcall.result) :
                \A j \in 1..Len(patterns) :
                    patterns[j].name = mcall.result[k].pattern_name
                        => Compiles(patterns[j].pattern)
    /\ mcall.op = "match_line" =>
          /\ mcall.result = match_line(WithoutInvalid(patterns), <<>>, text,
                                       mcall.line_number).matches
          /\ \A k \in 1..Len(mcall.result) :
                \A j \in 1..Len(patterns) :
                    patterns[j].name = mcall.result[k].pattern_name
                        => Compiles(patterns[j].pattern)

\* C10's case: an invalid pattern registered before a valid one, and a call
\* that returned a match of the valid one and a match of an earlier pattern
C10_Witness ==
    /\ mcall.op \in {"match_content", "match_line"}
    /\ \E i, j \in 1..Len(patterns) :
          /\ i < j
          /\ ~Compiles(patterns[i].pattern)
          /\ \E k \in 1..Len(mcall.result) :
                mcall.result[k].pattern_name = patterns[j].name
          /\ \E h \in 1..(i - 1) : \E k \in 1..Len(mcall.result) :
                mcall.result[k].pattern_name = patterns[h].name

-----------------------------------------------------------------------------
(* Claims on the scanner's configuration *)

\* the indices of the add_extension calls that handed in an extension for the
\* first time, the defaults left out
FirstInsertions ==
    {i \in 1..Len(added) :
        /\ \A d \in 1..Len(DefaultExtensions) : DefaultExtensions[d] # added[i]
        /\ \A j \in 1..(i - 1) : added[j] # added[i]}

\* C9: after any sequence of add_extension calls the allow-list has no
\* duplicate, starts with the 13 default entries in their order, and lists
\* the added extensions in the order of their first insertion (so a call with
\* an entry already present changed nothing); entries that differ in case
\* are different entries.
C9_AllowListDeduplicated ==
    LET ext == scanner.extensions
        F == FirstInsertions
    IN  /\ \A i, j \in 1..Len(ext) : i # j => ext[i] # ext[j]
        /\ Len(DefaultExtensions) = 13
        /\ Len(ext) = 13 + Cardinality(F)
        /\ \A i \in 1..13 : ext[i] = DefaultExtensions[i]
        /\ \A i \in F :
              ext[13 + Cardinality({j \in F : j <= i})] = added[i]

\* C9's case: three calls, one of a default entry, one of a new entry handed
\* in twice, one that differs from a default entry in case only
C9_Witness ==
    /\ Len(added) >= 3
    /\ \E i, j \in 1..Len(added) : i < j /\ added[i] = added[j]
                                         /\ added[i] = <<".", "txt">>
    /\ \E i \in 1..Len(added) : added[i] = <<".", "PY">>
    /\ Contains(scanner.extensions, <<".", "PY">>)
    /\ Contains(scanner.extensions, <<".", "py">>)

-----------------------------------------------------------------------------
(* What the claims say of a scan, stated from the snapshot: the matches of  *)
(* a content by lines and occurrences, the outcome of a file scan by the    *)
(* entry at the path, the candidates by the paths under the root.           *)

RECURSIVE SpecLineMatches(_, _, _, _)
SpecLineMatches(pats, line, l, j) ==
    IF j > Len(pats) THEN <<>>
    ELSE (IF Occurs(pats[j].pattern, line)
          THEN <<ExpectedMatch(pats[j], line, l)>> ELSE <<>>)
             \o SpecLineMatches(pats, line, l, j + 1)

RECURSIVE SpecMatchesFrom(_, _, _)
SpecMatchesFrom(pats, content, l) ==
    IF l > NumLinesOf(content) THEN <<>>
    ELSE SpecLineMatches(pats, LineOf(content, l), l, 1)
             \o SpecMatchesFrom(pats, content, l + 1)

\* the matches of a content under a registry, in order
SpecMatches(pats, content) == SpecMatchesFrom(pats, content, 1)

\* a ScanResult without its scan_time_ms
Strip(r) ==
    [file_path |-> r.file_path, matches |-> r.matches,
     file_size |-> r.file_size]

StripAll(rs) == {Strip(rs[k]) : k \in 1..Len(rs)}

\* the outcome of scanning a path with a size limit: the status and the
\* ScanResult without its time
SpecScan(path, max_file_size) ==
    LET e == Stat(path)
    IN  IF e.kind = "absent"
        THEN [status |-> "NotFound", v |-> Strip(NoResult)]
        ELSE IF e.size > max_file_size \/ e.size = 0
        THEN [status |-> "Ok",
              v |-> [file_path |-> path, matches |-> <<>>,
                     file_size |-> e.size]]
        ELSE IF e.kind = "file" /\ e.utf8_ok
        THEN [status |-> "Ok",
              v |-> [file_path |-> path,
                     matches |-> SpecMatches(default_patterns, e.content),
                     file_size |-> e.size]]
        ELSE [status |-> "IOError", v |-> Strip(NoResult)]

DefaultLimit == 10 * 1024 * 1024

IsPrefix(a, b) == Len(a) <= Len(b) /\ SubSeq(b, 1, Len(a)) = a

\* a file name that ends in an entry of the default allow-list, with a name
\* before the dot
AllowedName(name) ==
    \E i \in 1..Len(DefaultExtensions) :
        LET e == DefaultExtensions[i]
        IN  /\ Len(name) > Len(e)
            /\ SubSeq(name, Len(name) - Len(e) + 1, Len(name)) = e

\* the regular files under a root, no deeper than max_depth, reached through
\* directories only, whose name is allowed
SpecCandidates(root, max_depth) ==
    {p \in {e[1] : e \in Filesystem} :
        /\ IsPrefix(root, p)
        /\ max_depth.some => Len(p) - Len(root) <= max_depth.v
        /\ Lstat(p).kind = "file"
        /\ \A k \in Len(root)..(Len(p) - 1) : Lstat(SubSeq(p, 1, k)).kind = "dir"
        /\ AllowedName(p[Len(p)])}

\* a scan_directory call has returned Ok
DirDone == ret.op = "scan_directory" /\ ret.status = "Ok"

\* the flag of the call, as scan_directory reads it
ParallelAsked == IF call.parallel.some THEN call.parallel.v ELSE TRUE

FileOps == {"scan_file_sync", "scan_file"}

\* C2: for one snapshot and one max_depth, scan_directory with parallel=true
\* (or left out) and with parallel=false return the same set of ScanResults,
\* scan_time_ms left out, whatever the order in which the tasks ran.
C2_ParallelEqualsSequential ==
    DirDone =>
        IF ParallelAsked
        THEN StripAll(ret.results)
                 = StripAll(SequentialResults(DirFiles(call.path, call.max_depth),
                                              FastScannerNew(None)))
        ELSE StripAll(ret.results)
                 = StripAll(ParallelResults(DirFiles(call.path, call.max_depth)))

\* C2's case: the parallel branch has returned two or more results, with
\* matches, the task of the second candidate having finished with another
\* clock reading than the first
C2_Witness ==
    /\ DirDone
    /\ ret.trace[Len(ret.trace)] = "parallel"
    /\ Len(ret.results) >= 2
    /\ \E k \in 1..Len(ret.results) : ret.results[k].matches # <<>>
    /\ \E j, k \in 1..Len(ret.results) :
          ret.results[j].scan_time_ms # ret.results[k].scan_time_ms

\* C3: scan_file_sync on an existing file larger than max_file_size returns
\* Ok with no matches, scan_time_ms 0 and the file's size, and takes no step
\* after the metadata fetch; a file of exactly the limit is scanned as any
\* other file.
C3_OversizedShortCircuit ==
    (ret.op = "scan_file_sync" /\ PathExists(call.path)) =>
        LET e == Stat(call.path)
        IN  /\ e.size > ret.max_file_size =>
                  /\ ret.status = "Ok"
                  /\ ret.result = ScanResult(call.path, <<>>, 0, e.size)
                  /\ ret.trace = <<"exists", "metadata">>
            /\ (e.size = ret.max_file_size /\ e.size > 0) =>
                  /\ ret.status = SpecScan(call.path, ret.max_file_size).status
                  /\ \E i \in 1..Len(ret.trace) : ret.trace[i] = "mmap"
                  /\ ret.status = "Ok" =>
                        /\ Strip(ret.result)
                               = SpecScan(call.path, ret.max_file_size).v
                        /\ \E i \in 1..Len(ret.trace) : ret.trace[i] = "match"

\* C3's case: a file with a match, larger than the limit of the instance
\* (1 MB) and smaller than the default limit
C3_Witness ==
    /\ ret.op = "scan_file_sync"
    /\ ret.max_file_size = OneMB
    /\ Stat(call.path).size > ret.max_file_size
    /\ Stat(call.path).size < DefaultLimit
    /\ SpecMatches(default_patterns, Stat(call.path).content) # <<>>
    /\ ret.status = "Ok"

\* C4: every ScanResult of scan_directory is for a regular file whose
\* extension is in the allow-list (the default one, which every instance's
\* list starts with), never a file without an extension; a direct scan
\* (scan_file_sync, scan_file) scans a readable file whatever its extension.
C4_ExtensionFilterOnlyInDirectoryScan ==
    /\ DirDone =>
          \A k \in 1..Len(ret.results) :
              LET p == ret.results[k].file_path
              IN  /\ Lstat(p).kind = "file"
                  /\ AllowedName(p[Len(p)])
                  /\ \E d \in {i \in 1..Len(p[Len(p)]) : p[Len(p)][i] = "."} :
                        Contains(scanner.extensions,
                                 SubSeq(p[Len(p)], d, Len(p[Len(p)])))
    /\ (ret.op \in FileOps /\ Stat(call.path).kind = "file"
            /\ Stat(call.path).utf8_ok) =>
          /\ ret.status = "Ok"
          /\ Strip(ret.result) = SpecScan(call.path, ret.max_file_size).v

\* C4's case: a direct scan of a file whose extension is in no allow-list has
\* returned its matches
C4_Witness ==
    /\ ret.op = "scan_file_sync"
    /\ ~AllowedName(call.path[Len(call.path)])
    /\ ~should_scan(scanner, call.path)
    /\ ret.status = "Ok"
    /\ ret.result.matches # <<>>

\* C5: a scan of a path that does not exist fails with NotFound and yields
\* nothing: scan_file_sync and scan_file stop after the existence check, and
\* scan_directory stops before the walk, with no candidate and no file scan.
C5_MissingPathIsNotFound ==
    /\ (ret.op \in FileOps /\ Stat(call.path).kind = "absent") =>
          /\ ret.status = "NotFound"
          /\ ret.trace = <<"exists">>
          /\ ret.result = NoResult
    /\ (call.fn = "dir" /\ Stat(call.path).kind = "absent") =>
          /\ dpc = "idle" /\ files = <<>> /\ slots = <<>>
          /\ ret.op = "scan_directory" =>
                /\ ret.status = "NotFound"
                /\ ret.trace = <<"exists">>
                /\ ret.results = <<>>
    /\ ret.status = "NotFound" => Stat(call.path).kind = "absent"

\* C5's case: scan_directory on a root that does not exist has returned
C5_Witness ==
    /\ ret.op = "scan_directory"
    /\ ret.status = "NotFound"
    /\ ~(\E e \in Filesystem : e[1] = call.path)

\* the candidates whose scan succeeds
Succeeding(root, max_depth) ==
    {p \in SpecCandidates(root, max_depth) :
        SpecScan(ToStringLossy(p), DefaultLimit).status = "Ok"}

\* C6: when the root exists scan_directory returns Ok, in both modes, and its
\* list holds exactly one ScanResult for each candidate whose scan succeeds
\* (empty and oversized files too, with no matches), each as the scan of that
\* file alone gives it, and none for a candidate whose scan fails.
C6_FailuresAreOmitted ==
    (ret.op = "scan_directory" /\ ret.status # "running"
        /\ Stat(call.path).kind # "absent") =>
        LET S == Succeeding(call.path, call.max_depth)
        IN  /\ ret.status = "Ok"
            /\ Len(ret.results) = Cardinality(S)
            /\ \A p \in S :
                  Cardinality({k \in 1..Len(ret.results) :
                      Strip(ret.results[k])
                          = SpecScan(ToStringLossy(p), DefaultLimit).v}) = 1
            /\ \A k \in 1..Len(ret.results) :
                  /\ \E p \in S : ToStringLossy(p) = ret.results[k].file_path
                  /\ ret.results[k].scan_time_ms \in ElapsedMs \cup {0}

\* C6's case: a directory scan has returned with a candidate left out because
\* its scan failed, an oversized file with no matches, and a file with matches
C6_Witness ==
    /\ DirDone
    /\ Cardinality(SpecCandidates(call.path, call.max_depth))
           > Len(ret.results)
    /\ \E k \in 1..Len(ret.results) :
          /\ ret.results[k].file_size > DefaultLimit
          /\ ret.results[k].matches = <<>>
    /\ \E k \in 1..Len(ret.results) : ret.results[k].matches # <<>>

\* C7: two scans of one file, unchanged in between, by scanners of the same
\* size limit, give the same status and the same matches, file_path and
\* file_size, whether the second scan ran on the instance whose cache the
\* first one filled or on a new instance.
C7_ScanIsIdempotent ==
    (ret.op \in FileOps /\ prev.op \in FileOps
        /\ ret.max_file_size = prev.max_file_size) =>
        /\ ret.status = prev.status
        /\ Strip(ret.result) = Strip(prev.result)

\* C7's case: the second scan ran on the instance whose cache the first scan
\* filled, and returned matches
C7_Witness ==
    /\ ret.op = "scan_file_sync" /\ prev.op = "scan_file_sync"
    /\ ret.cache_before /\ ~prev.cache_before
    /\ ret.max_file_size = prev.max_file_size
    /\ ret.status = "Ok"
    /\ ret.result.matches # <<>>
    /\ ret.result.scan_time_ms # prev.result.scan_time_ms


\* C11: for a file that is not empty and within the size limit, scan_file_sync
\* maps the file first; when the mapping fails the buffered read is tried
\* before anything is returned, a buffered read that succeeds gives the
\* ScanResult of the file, and IOError is returned only after both have
\* failed.  An empty file gives Ok with no matches and neither read is tried.
C11_MmapFallsBackToBufferedRead ==
    (ret.op \in FileOps /\ Stat(call.path).kind # "absent"
        /\ Stat(call.path).size <= ret.max_file_size) =>
        \E e \in {Stat(call.path)} :
            IF e.size = 0
            THEN /\ ret.status = "Ok"
                 /\ ret.result.matches = <<>>
                 /\ ret.trace = <<"exists", "metadata">>
            ELSE /\ IsPrefix(<<"exists", "metadata", "mmap">>, ret.trace)
                 /\ (e.kind = "file" /\ e.utf8_ok /\ e.mmap_ok) =>
                       /\ ret.status = "Ok"
                       /\ ret.trace = <<"exists", "metadata", "mmap", "match">>
                 /\ ~(e.kind = "file" /\ e.utf8_ok /\ e.mmap_ok) =>
                       IsPrefix(<<"exists", "metadata", "mmap", "read">>,
                                ret.trace)
                 /\ (e.kind = "file" /\ e.utf8_ok /\ ~e.mmap_ok) =>
                       /\ ret.status = "Ok"
                       /\ Strip(ret.result)
                              = SpecScan(call.path, ret.max_file_size).v
                       /\ ret.trace = <<"exists", "metadata", "mmap", "read",
                                        "match">>
                 /\ ret.status = "IOError" <=> ~(e.kind = "file" /\ e.utf8_ok)
                 /\ ret.status = "IOError" =>
                       ret.trace = <<"exists", "metadata", "mmap", "read">>

\* C11's case: a file that cannot be mapped has been read and returned with
\* its matches
C11_Witness ==
    /\ ret.op = "scan_file_sync"
    /\ Stat(call.path).kind = "file"
    /\ ~Stat(call.path).mmap_ok
    /\ ret.status = "Ok"
    /\ ret.result.matches # <<>>
    /\ ret.trace = <<"exists", "metadata", "mmap", "read", "match">>


\* the file_path of each result, in the order of the list
PathsOf(rs) == [k \in 1..Len(rs) |-> rs[k].file_path]

\* the paths of ps that have a result in rs, in the order of ps
RECURSIVE KeptOf(_, _)
KeptOf(ps, rs) ==
    IF ps = <<>> THEN <<>>
    ELSE (IF \E k \in 1..Len(rs) : rs[k].file_path = ps[1]
          THEN <<ps[1]>> ELSE <<>>) \o KeptOf(Tail(ps), rs)

\* the candidates in traversal order, and in the order their scans ended
TraversalPaths == [k \in 1..Len(files) |-> ToStringLossy(files[k])]
CompletionPaths ==
    [k \in 1..Len(completed) |-> ToStringLossy(files[completed[k]])]

\* a parallel run has returned
ParallelDone == DirDone /\ ret.trace[Len(ret.trace)] = "parallel"

\* C12 as amended: in both modes scan_directory returns its results in the
\* traversal order of the candidate list, failed files left out; in parallel
\* mode the order in which the workers ended does not show in the list.
C12_ResultsInTraversalOrder ==
    DirDone =>
        /\ files = DirFiles(call.path, call.max_depth)
        /\ PathsOf(ret.results) = KeptOf(TraversalPaths, ret.results)

\* C12's case: a parallel run has returned two or more results whose scans
\* ended in another order than the candidate list's
C12_Witness ==
    /\ ParallelDone
    /\ Len(ret.results) >= 2
    /\ KeptOf(CompletionPaths, ret.results)
           # KeptOf(TraversalPaths, ret.results)

\* C12 as stated: sequential mode returns the results in traversal order, and
\* parallel mode returns them in the order in which the workers ended.
C12_ParallelInCompletionOrder ==
    DirDone =>
        IF ParallelDone
        THEN PathsOf(ret.results) = KeptOf(CompletionPaths, ret.results)
        ELSE PathsOf(ret.results) = KeptOf(TraversalPaths, ret.results)


-----------------------------------------------------------------------------
(* Claims on the regex cache of one matcher *)

\* the texts of the registered patterns
RegisteredTexts == {patterns[i].pattern : i \in 1..Len(patterns)}

\* every key is the text of a registered pattern that compiles, and the cache
\* is no larger than the set of distinct registered texts
CacheWithinRegistry ==
    /\ \A k \in DOMAIN regex_cache : k \in RegisteredTexts /\ Compiles(k)
    /\ Cardinality(DOMAIN regex_cache) <= Cardinality(RegisteredTexts)

\* one call: entries stay as they are, a new entry is for a registered text
\* that compiles, the match calls leave the registry alone, and add_pattern
\* appends one pattern and leaves the cache alone
CacheStep ==
    /\ \A k \in DOMAIN regex_cache :
          k \in DOMAIN regex_cache' /\ regex_cache'[k] = regex_cache[k]
    /\ \A k \in (DOMAIN regex_cache') \ (DOMAIN regex_cache) :
          /\ k \in RegisteredTexts /\ Compiles(k)
          /\ mcall'.op \in {"match_line", "match_content"}
    /\ \A i \in 1..Len(patterns) :
          (~Compiles(patterns[i].pattern))
              => patterns[i].pattern \notin DOMAIN regex_cache'
    /\ mcall'.op \in {"match_line", "match_content"} => patterns' = patterns
    /\ mcall'.op = "add_pattern" =>
          /\ regex_cache' = regex_cache
          /\ Len(patterns') = Len(patterns) + 1
          /\ SubSeq(patterns', 1, Len(patterns)) = patterns

\* C13: in every state add_pattern, match_line and match_content reach, each
\* key of the regex cache is the text of a registered pattern that compiled,
\* so the cache is never larger than the set of distinct registered texts; no
\* entry is ever removed or replaced, a pattern that does not compile is never
\* entered (so it is compiled again by the next call), and add_pattern
\* appends to the registry and leaves the cache as it is.
C13_CacheOnlyGrowsWithCompiledPatterns ==
    []CacheWithinRegistry /\ [][CacheStep]_vars

\* C13's case: the cache holds entries after a match call on a registry that
\* holds a pattern that does not compile and one text registered twice
C13_Witness ==
    /\ mcall.op \in {"match_line", "match_content"}
    /\ DOMAIN regex_cache # {}
    /\ \E i \in 1..Len(patterns) : ~Compiles(patterns[i].pattern)
    /\ Cardinality(RegisteredTexts) < Len(patterns)
    /\ Cardinality(DOMAIN regex_cache) < Cardinality(RegisteredTexts)


-----------------------------------------------------------------------------
(* Claims on the scanner scan_directory uses *)

StripSeq(rs) == [k \in 1..Len(rs) |-> Strip(rs[k])]

\* C14: whatever add_extension calls and size limit the caller's FastScanner
\* has had, scan_directory takes as candidates the files the 13 default
\* extensions allow, scans with the 10 MB limit and the 10 default patterns,
\* and returns what scans by new default scanners give.
C14_DirectoryScanUsesDefaultScanner ==
    (ret.op = "scan_directory" /\ ret.status \in {"running", "Ok"}) =>
        /\ Len(DefaultExtensions) = 13
        /\ {files[k] : k \in 1..Len(files)}
               = SpecCandidates(call.path, call.max_depth)
        /\ dpc = "sequential" =>
              /\ dscanner.max_file_size = DefaultLimit
              /\ dscanner.extensions = DefaultExtensions
              /\ dscanner.matcher.patterns = default_patterns
        /\ ret.status = "Ok" =>
              /\ StripSeq(ret.results) = StripSeq(ParallelResults(files))
              /\ \A k \in 1..Len(ret.results) :
                    Strip(ret.results[k])
                        = SpecScan(ret.results[k].file_path, DefaultLimit).v

\* C14's case: the caller's instance has another size limit and an added
\* extension, and a directory scan has returned without a file under the root
\* that this instance's list allows
C14_Witness ==
    /\ DirDone
    /\ scanner.max_file_size # DefaultLimit
    /\ \E p \in {e[1] : e \in Filesystem} :
          /\ IsPrefix(call.path, p)
          /\ Lstat(p).kind = "file"
          /\ should_scan(scanner, p)
          /\ ~AllowedName(p[Len(p)])
          /\ \A k \in 1..Len(ret.results) :
                ret.results[k].file_path # ToStringLossy(p)
    /\ \E k \in 1..Len(ret.results) : ret.results[k].matches # <<>>

=============================================================================
